---- MODULE Spec2Model ----
(***************************************************************************)
(* A model of src/index.js: the resolver (getPackageDependencyTree,        *)
(* getPinnedReference, isVolatileDependency), the tree optimizer           *)
(* (optimizePackageTree), the linker (linkPackages), the top-level async   *)
(* function that runs them, and the archive reader (getFileName,           *)
(* readFileFromArchive).  A step of the model is what runs                 *)
(* between two awaits that wait for the network, the disk or a child       *)
(* process; promise reactions in between belong to the step that settled   *)
(* the promise.  The progress bar (pace) is not part of the model.         *)
(***************************************************************************)
EXTENDS Integers, Sequences, FiniteSets, TLC

VARIABLES optIn, optDeps, optI, optJ, optSnap, optPc, optOut, optKept

\* The arrays that optimizePackageTree reads and writes, each under its
\* identity: <<"in", p>> is the dependencies array of the node at p of the tree
\* given to the top call, <<"out", p>> the array that the call for that node
\* makes.  An element of an array holds the identity of its own dependencies
\* array.  optRefSnap is hardDependency.dependencies.slice() of the top call.
VARIABLES optHeap, optRefSnap

\* The resolver: the manifest, what the registry has answered so far, one task
\* per started callback of getPackageDependencyTree, the Map objects, and the
\* state of the top-level function.
VARIABLES manifest, regVersions, regDeps, tasks, maps, pc, packageTree,
          exitCode, reported, errors

\* The linker: what the extracted package.json files hold, the tree being
\* linked, one task per linkPackages call and its caller's callback, and what
\* was written and run so far.  fetched counts, for each name and reference,
\* the calls of fetchPackage that linkPackages makes for the nodes of its tree:
\* the call of line 144 for the node itself and, inside the
\* getPackageDependencyTree of line 136, the call of getPackageDependencies for
\* each dependency of the node.  The calls that line 136 makes further down,
\* for the dependencies declared by those packages, are not counted.
VARIABLES pkgMeta, linkTree, link, extracted, symlinks, started, fetched

\* readFileFromArchive: the arguments, the entries the extractor has emitted
\* with what the handler computed for them, the stream of the entry being read,
\* the buffers array of the matching entry, the promise and the extractor.
VARIABLES arFileName, arVirtualPath, arEntries, arStream, arBuffers, arPromise,
          arExtractor

optVars == <<optIn, optDeps, optI, optJ, optSnap, optPc, optOut, optKept, optHeap,
            optRefSnap>>

resVars == <<manifest, regVersions, regDeps, tasks, maps, packageTree>>

mainVars == <<pc, exitCode, reported, errors>>

linkVars == <<pkgMeta, linkTree, link, extracted, symlinks, started, fetched>>

arVars == <<arFileName, arVirtualPath, arEntries, arStream, arBuffers, arPromise,
           arExtractor>>

vars == <<optVars, resVars, mainVars, linkVars, arVars>>

(***************************************************************************)
(* References.  A reference is the string of a dependency descriptor; the  *)
(* model keeps what the code asks of it: whether semver.valid accepts it,  *)
(* whether semver.validRange accepts it, whether it starts with '/', './'  *)
(* or '../', and which versions satisfy it.                                *)
(*   Exact(M, m)  the version "M.m.0"                                      *)
(*   Caret(M, m)  the range "^M.m.0"                                       *)
(*   Url(n)       "https://host/n.tgz"                                     *)
(*   Path(n)      "./n.tgz"                                                *)
(*   Tag          "latest": no version, no range, no path, no URL          *)
(*   NoRef        the root's reference (undefined)                         *)
(***************************************************************************)
Exact(M, m) == [kind |-> "exact", major |-> M, minor |-> m]
Caret(M, m) == [kind |-> "range", major |-> M, minor |-> m]
Url(n) == [kind |-> "url", major |-> n, minor |-> 0]
Path(n) == [kind |-> "path", major |-> n, minor |-> 0]
Tag == [kind |-> "tag", major |-> 0, minor |-> 0]
NoRef == [kind |-> "none", major |-> 0, minor |-> 0]

Names == {"a", "b", "c"}

Node(n, r, ds) == [name |-> n, reference |-> r, dependencies |-> ds]

\* What Array.prototype.find returns when nothing matches.
undefined == Node("undefined", NoRef, <<>>)

Range(s) == {s[k] : k \in 1..Len(s)}

NamesOf(s) == {s[k].name : k \in 1..Len(s)}

DistinctNames(s) == \A k, l \in 1..Len(s) : s[k].name = s[l].name => k = l

MaxDeps == 2

(***************************************************************************)
(* semver, as far as the code uses it                                      *)
(***************************************************************************)
\* semver.valid(reference): non-null exactly for a version
semver_valid(reference) == reference.kind = "exact"

\* semver.validRange(reference): non-null for a range and for a version
semver_validRange(reference) == reference.kind \in {"exact", "range"}

\* SemVer.compare: -1, 0 or 1 by major, then minor
semver_compare(v, w) ==
  IF v.major # w.major THEN (IF v.major < w.major THEN -1 ELSE 1)
  ELSE IF v.minor # w.minor THEN (IF v.minor < w.minor THEN -1 ELSE 1)
  ELSE 0

\* semver.satisfies(version, range): false when version is no version (also
\* undefined); a version as range is satisfied by itself; "^M.m.0" by the
\* versions M.x.0 with x >= m, and "^0.m.0" by 0.m.0 only.
semver_satisfies(version, range) ==
  /\ version.kind = "exact"
  /\ \/ range.kind = "exact" /\ version = range
     \/ /\ range.kind = "range"
        /\ version.major = range.major
        /\ IF range.major = 0 THEN version.minor = range.minor
           ELSE version.minor >= range.minor

\* The loop of semver.maxSatisfying from position k on, max being the best
\* version so far (NoRef for null).
RECURSIVE maxSatisfyingFrom(_, _, _, _)
maxSatisfyingFrom(versions, range, k, max) ==
  IF k > Len(versions) THEN max
  ELSE IF /\ semver_satisfies(versions[k], range)
          /\ (max = NoRef \/ semver_compare(max, versions[k]) = -1)
       THEN maxSatisfyingFrom(versions, range, k + 1, versions[k])
       ELSE maxSatisfyingFrom(versions, range, k + 1, max)

\* The first listed version that satisfies the range.
semver_maxSatisfying_first(versions, range) ==
  IF \E k \in 1..Len(versions) : semver_satisfies(versions[k], range)
  THEN versions[CHOOSE k \in 1..Len(versions) :
                  /\ semver_satisfies(versions[k], range)
                  /\ \A l \in 1..(k - 1) : ~semver_satisfies(versions[l], range)]
  ELSE NoRef

\* semver.maxSatisfying(versions, range): null (NoRef) when none satisfies
semver_maxSatisfying(versions, range) == maxSatisfyingFrom(versions, range, 1, NoRef)

(***************************************************************************)
(* The resolver                                                            *)
(***************************************************************************)
PkgNames == {"a", "b"}

MaxDepth == 2

\* A callback of getPackageDependencyTree is named by the positions, in the
\* dependency lists, of the descriptors that lead to it from the manifest.
Paths == UNION {[1..k -> 1..MaxDeps] : k \in 0..MaxDepth}

Parent(p) == SubSeq(p, 1, Len(p) - 1)

Error(k, n, r) == [kind |-> k, name |-> n, reference |-> r]

NoError == Error("none", "", NoRef)

NoTask ==
  [stage |-> "none", name |-> "", reference |-> NoRef, pinned |-> NoRef,
   deps |-> <<>>, available |-> <<>>, subAvailable |-> <<>>, queried |-> FALSE]

\* new Map()
EmptyMap == [n \in PkgNames |-> NoRef]

\* fetchPackage can obtain a tarball for a path, a version or a URL only.
Fetchable(reference) == reference.kind \in {"path", "exact", "url"}

\* A filter that keeps every dependency.
isVolatileDependency_always(volatileDependency, available) == TRUE

\* The first test of isVolatileDependency alone.
isVolatileDependency_exactOnly(volatileDependency, available) ==
  available[volatileDependency.name] # volatileDependency.reference

\* isVolatileDependency; available.get gives NoRef (undefined) without an entry.
isVolatileDependency(volatileDependency, available) ==
  LET availableReference == available[volatileDependency.name]
  IN IF availableReference = volatileDependency.reference THEN FALSE
     ELSE IF /\ semver_validRange(volatileDependency.reference)
             /\ semver_satisfies(availableReference, volatileDependency.reference)
          THEN FALSE
          ELSE TRUE

\* A getPinnedReference that never asks the registry.
needsQuery_never(reference) == FALSE

\* getPinnedReference, line 276: the registry is asked for a range that is no version
needsQuery(reference) == semver_validRange(reference) /\ ~semver_valid(reference)

\* getPackageDependencyTree up to its await: the filter, and each callback up
\* to its first await (inside getPinnedReference or inside fetchPackage).
call(ts, p, dependencies, availableId, mp) ==
  [q \in Paths |->
     IF Len(q) = Len(p) + 1 /\ Parent(q) = p /\ q[Len(q)] <= Len(dependencies)
     THEN LET d == dependencies[q[Len(q)]]
          IN IF isVolatileDependency(d, mp[availableId])
             THEN [stage |-> IF needsQuery(d.reference) THEN "versions" ELSE "package",
                   name |-> d.name, reference |-> d.reference,
                   pinned |-> IF needsQuery(d.reference) THEN NoRef ELSE d.reference,
                   deps |-> <<>>, available |-> availableId, subAvailable |-> <<>>,
                   queried |-> needsQuery(d.reference)]
             ELSE [NoTask EXCEPT !.stage = "skipped", !.name = d.name,
                                 !.reference = d.reference,
                                 !.available = availableId]
     ELSE ts[q]]

HasVolatile(dependencies, available) ==
  \E k \in 1..Len(dependencies) : isVolatileDependency(dependencies[k], available)

\* subAvailable being the object available itself.
subAvailableId_shared(p, availableId) == availableId

\* const subAvailable = new Map(available): a new object, named by its callback
subAvailableId(p, availableId) == p

\* The reference of the descriptor as declared.
nodeReference_declared(t) == t.reference

\* Object.assign({}, pinnedDependency, { dependencies: subDependencies }).reference
nodeReference(t) == t.pinned

ChildPaths(ts, p) ==
  {q \in Paths : Len(q) = Len(p) + 1 /\ Parent(q) = p /\ ts[q].stage # "none"}

\* The promise of the callback at p is fulfilled.
RECURSIVE Fulfilled(_, _)
Fulfilled(ts, p) ==
  /\ ts[p].stage = "wait"
  /\ \A q \in ChildPaths(ts, p) : ts[q].stage = "skipped" \/ Fulfilled(ts, q)

\* The value of await Promise.all(promiseDependenciesList): the nodes of the
\* callbacks that were started, in the order of the dependency list.
RECURSIVE NodeAt(_, _)
NodeAt(ts, p) ==
  LET spawned == {i \in 1..MaxDeps : /\ Len(p) < MaxDepth
                                     /\ ts[Append(p, i)].stage \notin {"none", "skipped"}}
      RECURSIVE Children(_)
      Children(i) ==
        IF i > MaxDeps THEN <<>>
        ELSE IF i \in spawned THEN <<NodeAt(ts, Append(p, i))>> \o Children(i + 1)
        ELSE Children(i + 1)
  IN Node(ts[p].name, nodeReference(ts[p]), Children(1))

(***************************************************************************)
(* The inputs: the manifest's dependencies, and what the registry answers. *)
(***************************************************************************)
V10 == Exact(1, 0)

V11 == Exact(1, 1)

V20 == Exact(2, 0)

Dep(n, r) == [name |-> n, reference |-> r]

DeclRefs == {Caret(1, 0), Caret(1, 1), V10, Url(1), Path(1), Tag}

\* Object.keys(info.versions) of a registry answer
VersionLists == {<<V10, V11, V20>>, <<V11, V10>>, <<V20>>}

DepListsOver(S) ==
  {s \in UNION {[1..k -> S] : k \in 0..MaxDeps} : DistinctNames(s)}

Manifests == DepListsOver({Dep(n, r) : n \in PkgNames, r \in DeclRefs})

\* the dependencies of a package.json read from a tarball
PkgDepLists == DepListsOver({Dep("a", Caret(1, 0)), Dep("b", V10)})

FetchRefs == {V10, V11, V20, Url(1), Path(1)}

Unknown == [st |-> "unknown", val |-> <<>>]

Known(v) == [st |-> "ok", val |-> v]

Phases == <<"preinstall", "install", "postinstall">>

\* The bin and scripts of a package.json not read yet.
NoMeta == [n \in PkgNames |-> [st |-> "unknown", bin |-> 0, scripts |-> {}]]

LinkIdle ==
  /\ pkgMeta = NoMeta
  /\ linkTree = undefined
  /\ link = <<>>
  /\ extracted = {}
  /\ symlinks = {}
  /\ started = {}
  /\ fetched = [k \in PkgNames \X FetchRefs |-> 0]

ResIdle ==
  /\ LinkIdle
  /\ manifest = <<>>
  /\ regVersions = [n \in PkgNames |-> Unknown]
  /\ regDeps = [k \in PkgNames \X FetchRefs |-> Unknown]
  /\ tasks = [p \in Paths |-> NoTask]
  /\ maps = [p \in Paths |-> EmptyMap]
  /\ packageTree = undefined
  /\ pc = "idle"
  /\ exitCode = -1
  /\ reported = NoError
  /\ errors = <<>>

\* No call of readFileFromArchive is followed.
ArIdle ==
  /\ arFileName = <<>>
  /\ arVirtualPath = 0
  /\ arEntries = <<>>
  /\ arStream = [st |-> "none", rest |-> <<>>]
  /\ arBuffers = <<>>
  /\ arPromise = [st |-> "idle", kind |-> "", val |-> <<>>]
  /\ arExtractor = "idle"

OptIdle ==
  /\ optIn = undefined
  /\ optDeps = <<>>
  /\ optI = 0
  /\ optJ = 0
  /\ optSnap = <<>>
  /\ optPc = "idle"
  /\ optOut = undefined
  /\ optKept = {}
  /\ optHeap = <<>>
  /\ optRefSnap = <<>>

ResInit ==
  /\ OptIdle
  /\ LinkIdle
  /\ ArIdle
  /\ manifest \in Manifests
  /\ regVersions = [n \in PkgNames |-> Unknown]
  /\ regDeps = [k \in PkgNames \X FetchRefs |-> Unknown]
  /\ tasks = [p \in Paths |-> NoTask]
  /\ maps = [p \in Paths |-> EmptyMap]
  /\ packageTree = undefined
  /\ pc = "start"
  /\ exitCode = -1
  /\ reported = NoError
  /\ errors = <<>>

\* A rejection that is caught on the way and never reaches the top.
rejectionAtTop_swallowed(p, err) == NoError

\* A rejected promise reaches the await of the top-level function through the
\* Promise.all of every enclosing call; the catch block logs it and exits.

RECURSIVE rejectionAtTop(_, _)
rejectionAtTop(p, err) == IF p = <<>> THEN err ELSE rejectionAtTop(Parent(p), err)

Throw(p, err) ==
  /\ errors' = Append(errors, err)
  /\ IF rejectionAtTop(p, err) # NoError
     THEN /\ reported' = rejectionAtTop(p, err)
          /\ exitCode' = 1
          /\ pc' = "exited"
     ELSE UNCHANGED <<reported, exitCode, pc, arVars>>

\* The top-level function calls getPackageDependencyTree(pace, packageJson).
ResStart ==
  /\ pc = "start"
  /\ pc' = "resolving"
  /\ tasks' = call([tasks EXCEPT ![<<>>] =
                      [NoTask EXCEPT !.stage = "wait", !.name = "root",
                                     !.deps = manifest]],
                   <<>>, manifest, <<>>, maps)
  /\ UNCHANGED <<manifest, regVersions, regDeps, maps, packageTree,
                 exitCode, reported, errors, optVars, linkVars, arVars>>

\* getPinnedReference after the registry answered with the version list.
ResVersions(p) ==
  /\ pc = "resolving"
  /\ tasks[p].stage = "versions"
  /\ LET t == tasks[p]
     IN \E versions \in (IF regVersions[t.name].st = "ok"
                         THEN {regVersions[t.name].val} ELSE VersionLists) :
          LET maxSatisfying == semver_maxSatisfying(versions, t.reference)
          IN /\ regVersions' = [regVersions EXCEPT ![t.name] = Known(versions)]
             /\ IF maxSatisfying = NoRef
                THEN /\ Throw(p, Error("unsatisfied-range", t.name, t.reference))
                     /\ UNCHANGED <<manifest, regDeps, tasks, maps, packageTree,
                                    optVars, linkVars, arVars>>
                ELSE /\ tasks' = [tasks EXCEPT ![p].stage = "package",
                                               ![p].pinned = maxSatisfying]
                     /\ UNCHANGED <<manifest, regDeps, maps, packageTree,
                                    mainVars, optVars, linkVars, arVars>>

\* The registry request of getPinnedReference fails (no answer, or an answer
\* without versions).
ResVersionsFail(p) ==
  /\ pc = "resolving"
  /\ tasks[p].stage = "versions"
  /\ Throw(p, Error("version-query", tasks[p].name, tasks[p].reference))
  /\ UNCHANGED <<manifest, regVersions, regDeps, tasks, maps, packageTree,
                 optVars, linkVars, arVars>>

\* getPackageDependencies returned: the callback makes subAvailable and calls
\* getPackageDependencyTree for the pinned dependency.
ResPackage(p) ==
  /\ pc = "resolving"
  /\ tasks[p].stage = "package"
  /\ Fetchable(tasks[p].pinned)
  /\ LET t == tasks[p]
         key == <<t.name, t.pinned>>
     IN \E subDependencies \in (IF regDeps[key].st = "ok"
                                THEN {regDeps[key].val} ELSE PkgDepLists) :
          LET id == subAvailableId(p, t.available)
              maps2 == [maps EXCEPT ![id] =
                          [maps[t.available] EXCEPT ![t.name] = t.pinned]]
              ts1 == [tasks EXCEPT ![p].stage = "wait",
                                   ![p].deps = subDependencies,
                                   ![p].subAvailable = id]
          IN /\ HasVolatile(subDependencies, maps2[id]) => Len(p) < MaxDepth
             /\ regDeps' = [regDeps EXCEPT ![key] = Known(subDependencies)]
             /\ maps' = maps2
             /\ tasks' = IF Len(p) < MaxDepth
                         THEN call(ts1, p, subDependencies, id, maps2)
                         ELSE ts1
  /\ UNCHANGED <<manifest, regVersions, packageTree, mainVars, optVars, linkVars, arVars>>

\* getPackageDependencies throws: the fetch fails, the archive has no
\* package.json, or JSON.parse fails.
ResPackageFail(p) ==
  /\ pc = "resolving"
  /\ tasks[p].stage = "package"
  /\ \E k \in {"fetch", "archive", "json"} :
       /\ ~Fetchable(tasks[p].pinned) => k = "fetch"
       /\ Throw(p, Error(k, tasks[p].name, tasks[p].pinned))
  /\ UNCHANGED <<manifest, regVersions, regDeps, tasks, maps, packageTree,
                 optVars, linkVars, arVars>>

\* await Promise.all(promiseDependenciesList) of the top call is fulfilled.
ResReturn ==
  /\ pc = "resolving"
  /\ Fulfilled(tasks, <<>>)
  /\ packageTree' = NodeAt(tasks, <<>>)
  /\ pc' = "resolved"
  /\ UNCHANGED <<manifest, regVersions, regDeps, tasks, maps,
                 exitCode, reported, errors, optVars, linkVars, arVars>>

ResNext ==
  \/ ResStart
  \/ \E p \in Paths : ResVersions(p)
  \/ \E p \in Paths : ResVersionsFail(p)
  \/ \E p \in Paths : ResPackage(p)
  \/ \E p \in Paths : ResPackageFail(p)
  \/ ResReturn

SpecResolve == ResInit /\ [][ResNext]_vars

(***************************************************************************)
(* The resolver when every request succeeds, over the registries without a *)
(* cycle: b depends on nothing, a depends on nothing or on b@1.0.0.  The    *)
(* event loop runs every callback whose request was answered, so each step *)
(* is weakly fair.                                                         *)
(***************************************************************************)
AcyclicDeps ==
  {r \in [PkgNames \X FetchRefs -> {Known(<<>>), Known(<<Dep("b", V10)>>)}] :
     \A ref \in FetchRefs : r[<<"b", ref>>] = Known(<<>>)}

FairInit ==
  /\ OptIdle
  /\ LinkIdle
  /\ ArIdle
  /\ manifest \in {m \in Manifests : \A k \in 1..Len(m) : m[k].reference # Tag}
  /\ regVersions = [n \in PkgNames |-> Unknown]
  /\ regDeps \in AcyclicDeps
  /\ tasks = [p \in Paths |-> NoTask]
  /\ maps = [p \in Paths |-> EmptyMap]
  /\ packageTree = undefined
  /\ pc = "start"
  /\ exitCode = -1
  /\ reported = NoError
  /\ errors = <<>>

ResNextOk ==
  \/ ResStart
  \/ \E p \in Paths : ResVersions(p)
  \/ \E p \in Paths : ResPackage(p)
  \/ ResReturn

ResFairness ==
  /\ WF_vars(ResStart)
  /\ \A p \in Paths : WF_vars(ResVersions(p))
  /\ \A p \in Paths : WF_vars(ResPackage(p))
  /\ WF_vars(ResReturn)

SpecResolveFair == FairInit /\ [][ResNextOk]_vars /\ ResFairness

(***************************************************************************)
(* The resolver over the registries in which each name has the one version *)
(* 1.0.0 and a package may depend on any package, itself included: every   *)
(* reference to a name is "1.0.0" or "^1.0.0".                             *)
(***************************************************************************)
CyclicInit ==
  /\ OptIdle
  /\ LinkIdle
  /\ ArIdle
  /\ manifest \in DepListsOver({Dep(n, r) : n \in PkgNames, r \in {Caret(1, 0), V10}})
  /\ regVersions = [n \in PkgNames |-> Known(<<V10>>)]
  /\ regDeps = [k \in PkgNames \X FetchRefs |-> Unknown]
  /\ tasks = [p \in Paths |-> NoTask]
  /\ maps = [p \in Paths |-> EmptyMap]
  /\ packageTree = undefined
  /\ pc = "start"
  /\ exitCode = -1
  /\ reported = NoError
  /\ errors = <<>>

SpecResolveCyclic == CyclicInit /\ [][ResNextOk]_vars /\ ResFairness

(***************************************************************************)
(* optimizePackageTree                                                     *)
(***************************************************************************)

\* A find that never matches.
availableDependency_none(dependencies, subDependency) == undefined

\* dependencies.find((dependency) => dependency.name === subDependency.name)
availableDependency(dependencies, subDependency) ==
  IF \E k \in 1..Len(dependencies) : dependencies[k].name = subDependency.name
  THEN dependencies[CHOOSE k \in 1..Len(dependencies) :
                      /\ dependencies[k].name = subDependency.name
                      /\ \A l \in 1..(k - 1) : dependencies[l].name # subDependency.name]
  ELSE undefined

\* list.findIndex((dependency) => dependency.name === name): 0-based, -1 when absent
findIndex(list, name) ==
  IF \E k \in 1..Len(list) : list[k].name = name
  THEN (CHOOSE k \in 1..Len(list) :
          /\ list[k].name = name
          /\ \A l \in 1..(k - 1) : list[l].name # name) - 1
  ELSE -1

\* A splice that deletes nothing.
splice_keep(list, start) == list

\* list.splice(start) with no deleteCount: deletes from start to the end of the
\* list; a negative start counts from the end.
splice(list, start) ==
  LET len == Len(list)
      from == IF start < 0
              THEN (IF len + start < 0 THEN 0 ELSE len + start)
              ELSE (IF start > len THEN len ELSE start)
  IN SubSeq(list, 1, from)

\* dependencies.push(subDependency)
push(list, x) == Append(list, x)

\* The body of the inner loop for hardDependency = dependencies[i].
hoistBody(dependencies, i, subDependency) ==
  LET found == availableDependency(dependencies, subDependency)
      pushed == IF found = undefined THEN push(dependencies, subDependency)
                ELSE dependencies
      hard == pushed[i]
  IN IF found = undefined \/ found.reference = subDependency.reference
     THEN [pushed EXCEPT ![i] =
            Node(hard.name, hard.reference,
                 splice(hard.dependencies,
                        findIndex(hard.dependencies, subDependency.name)))]
     ELSE pushed

RECURSIVE hoistInner(_, _, _, _)
hoistInner(dependencies, i, snap, j) ==
  IF j > Len(snap) THEN dependencies
  ELSE hoistInner(hoistBody(dependencies, i, snap[j]), i, snap, j + 1)

RECURSIVE hoistOuter(_, _, _)
hoistOuter(dependencies, i, n) ==
  IF i > n THEN dependencies
  ELSE hoistOuter(hoistInner(dependencies, i, dependencies[i].dependencies, 1),
                  i + 1, n)

RECURSIVE optimizePackageTree(_)
optimizePackageTree(node) ==
  LET mapped == [k \in 1..Len(node.dependencies) |->
                   optimizePackageTree(node.dependencies[k])]
  IN Node(node.name, node.reference, hoistOuter(mapped, 1, Len(mapped)))

(***************************************************************************)
(* The linker                                                              *)
(***************************************************************************)
MaxBins == 1

\* dependencyPackageJson.bin (the number of its keys) and the script phases
\* dependencyPackageJson.scripts defines
Metas ==
  {[st |-> "ok", bin |-> b, scripts |-> sc] :
     b \in 0..MaxBins,
     sc \in {{}, {"install"}, {"preinstall", "postinstall"}}}

RECURSIVE NodePaths(_)
NodePaths(node) ==
  {<<>>} \cup
  UNION {{<<k>> \o q : q \in NodePaths(node.dependencies[k])} :
           k \in 1..Len(node.dependencies)}

RECURSIVE NodeOf(_, _)
NodeOf(node, p) ==
  IF p = <<>> THEN node ELSE NodeOf(node.dependencies[Head(p)], Tail(p))

\* cwd of the linkPackages call for the node at p: one "/spm_node_modules/<name>"
\* below the install directory for every name of the list.
RECURSIVE cwdOf(_, _)
cwdOf(node, p) ==
  IF p = <<>> THEN <<>>
  ELSE <<node.dependencies[Head(p)].name>> \o cwdOf(node.dependencies[Head(p)], Tail(p))

(***************************************************************************)
(* optimizePackageTree on the arrays themselves                            *)
(***************************************************************************)
RootId == <<"in", <<>>>>

\* The arrays of a tree as it is given to optimizePackageTree; the arrays the
\* calls will make are not there yet.
InputHeap(node) ==
  [id \in {"in", "out"} \X NodePaths(node) |->
     IF id[1] = "in"
     THEN [k \in 1..Len(NodeOf(node, id[2]).dependencies) |->
             [name |-> NodeOf(node, id[2]).dependencies[k].name,
              reference |-> NodeOf(node, id[2]).dependencies[k].reference,
              dependencies |-> <<"in", Append(id[2], k)>>]]
     ELSE <<>>]

\* A map that writes its results into the array it reads.
mapTarget_inPlace(id) == id

\* dependencies.map(...) returns a new array
mapTarget(id) == <<"out", id[2]>>

\* The body of the inner loop: dependencies is the array A, and
\* hardDependency.dependencies the array H.
heapBody(h, A, H, subDependency) ==
  LET found == availableDependency(h[A], subDependency)
      h1 == IF found = undefined THEN [h EXCEPT ![A] = push(h[A], subDependency)]
            ELSE h
  IN IF found = undefined \/ found.reference = subDependency.reference
     THEN [h1 EXCEPT ![H] = splice(h1[H], findIndex(h1[H], subDependency.name))]
     ELSE h1

RECURSIVE heapInner(_, _, _, _, _)
heapInner(h, A, H, snap, j) ==
  IF j > Len(snap) THEN h
  ELSE heapInner(heapBody(h, A, H, snap[j]), A, H, snap, j + 1)

RECURSIVE heapOuter(_, _, _, _)
heapOuter(h, A, snap, i) ==
  IF i > Len(snap) THEN h
  ELSE heapOuter(heapInner(h, A, snap[i].dependencies, h[snap[i].dependencies], 1),
                 A, snap, i + 1)

\* optimizeAt(h, id): the arrays after optimizePackageTree of a node whose
\* dependencies array is id; the node it returns has the array mapTarget(id).
\* mapStep is its first statement: the calls for the dependencies, in order,
\* and the array of their results.
RECURSIVE optimizeAt(_, _)
RECURSIVE mapCalls(_, _, _)
mapCalls(h, src, k) ==
  IF k > Len(src) THEN h
  ELSE mapCalls(optimizeAt(h, src[k].dependencies), src, k + 1)

mapStep(h, id) ==
  [mapCalls(h, h[id], 1) EXCEPT ![mapTarget(id)] =
     [k \in 1..Len(h[id]) |->
        [name |-> h[id][k].name, reference |-> h[id][k].reference,
         dependencies |-> mapTarget(h[id][k].dependencies)]]]

optimizeAt(h, id) ==
  heapOuter(mapStep(h, id), mapTarget(id), mapStep(h, id)[mapTarget(id)], 1)

\* The list of nodes that the array id holds.
RECURSIVE ValueOf(_, _)
ValueOf(h, id) ==
  [k \in 1..Len(h[id]) |->
     Node(h[id][k].name, h[id][k].reference, ValueOf(h, h[id][k].dependencies))]

LinkTask(st, b, ph) == [stage |-> st, bin |-> b, phase |-> ph]

\* A virtualPath chosen by the shape of the reference.
virtualPath_byReference(reference) == IF reference.kind = "path" THEN 0 ELSE 1

\* extractNpmArchiveTo: extractArchiveTo(packageBuffer, target, { virtualPath: 1 })
virtualPath(reference) == 1

\* The last phase after index i that the scripts define.
nextPhase_last(meta, i) ==
  IF \E j \in (i + 1)..Len(Phases) : Phases[j] \in meta.scripts
  THEN CHOOSE j \in (i + 1)..Len(Phases) :
         /\ Phases[j] \in meta.scripts
         /\ \A l \in (j + 1)..Len(Phases) : Phases[l] \notin meta.scripts
  ELSE 0

\* The first phase after index i that the scripts define; 0 when there is none.
nextPhase(meta, i) ==
  IF \E j \in (i + 1)..Len(Phases) : Phases[j] \in meta.scripts
  THEN CHOOSE j \in (i + 1)..Len(Phases) :
         /\ Phases[j] \in meta.scripts
         /\ \A l \in (i + 1)..(j - 1) : Phases[l] \notin meta.scripts
  ELSE 0

\* The callback after its bin loop: exec of the first defined script, or the end.
afterBins(meta) ==
  IF nextPhase(meta, 0) = 0 THEN LinkTask("done", 0, 0)
  ELSE LinkTask("script", 0, nextPhase(meta, 0))

startedBy(p, task) ==
  IF task.stage = "script" THEN {<<p, Phases[task.phase]>>} ELSE {}

\* The calls of fetchPackage({name, reference}), k = <<name, reference>>, of one
\* linkPackages call: getPackageDependencyTree (line 136) starts with an empty
\* Map, so every dependency of the node is volatile and getPackageDependencies
\* fetches it (line 241); then the node itself is fetched (line 144) when it has
\* a reference.
fetchCalls(node, k) ==
  Cardinality({i \in 1..Len(node.dependencies) :
                 k = <<node.dependencies[i].name, node.dependencies[i].reference>>})
  + (IF node.reference # NoRef /\ k = <<node.name, node.reference>> THEN 1 ELSE 0)

\* A Promise.all that waits for no callback.
ChildrenDone_unawaited(p) == TRUE

\* await Promise.all(dependencies.map(...)) of the call for the node at p is
\* fulfilled: the callback of every dependency has ended.
ChildrenDone(p) ==
  \A q \in DOMAIN link :
    (Len(q) = Len(p) + 1 /\ Parent(q) = p) => link[q].stage = "done"

\* The manifests of the whole run: at most one dependency.
MainManifests == {m \in Manifests : Len(m) <= 1}

Init ==
  /\ OptIdle
  /\ LinkIdle
  /\ ArIdle
  /\ manifest \in MainManifests
  /\ regVersions = [n \in PkgNames |-> Unknown]
  /\ regDeps = [k \in PkgNames \X FetchRefs |-> Unknown]
  /\ tasks = [p \in Paths |-> NoTask]
  /\ maps = [p \in Paths |-> EmptyMap]
  /\ packageTree = undefined
  /\ pc = "start"
  /\ exitCode = -1
  /\ reported = NoError
  /\ errors = <<>>

\* linkPackages(pace, optimizePackageTree(packageTree), destPath) up to its
\* first await; the callbacks and maps of the resolver are no longer referenced.
MainLink ==
  /\ pc = "resolved"
  /\ pc' = "linking"
  /\ linkTree' = optimizePackageTree(packageTree)
  /\ link' = [p \in NodePaths(optimizePackageTree(packageTree)) |->
                IF p = <<>> THEN LinkTask("extract", 0, 0) ELSE LinkTask("none", 0, 0)]
  /\ tasks' = [p \in Paths |-> NoTask]
  /\ maps' = [p \in Paths |-> EmptyMap]
  /\ optHeap' = optimizeAt(InputHeap(packageTree), RootId)
  /\ UNCHANGED <<manifest, regVersions, regDeps, packageTree, exitCode, reported,
                 errors, pkgMeta, extracted, symlinks, started, fetched, arVars>>
  /\ UNCHANGED <<optIn, optDeps, optI, optJ, optSnap, optPc, optOut, optKept,
                 optRefSnap>>

\* linkPackages for the node at p: getPackageDependencyTree, fetchPackage and
\* extractNpmArchiveTo have returned; the callbacks of the children start.
\* The three awaits are one step: the first two write nothing to the disk;
\* fetched counts their calls of fetchPackage.
LinkExtract(p) ==
  /\ pc = "linking"
  /\ p \in DOMAIN link
  /\ link[p].stage = "extract"
  /\ LET node == NodeOf(linkTree, p)
     IN /\ node.reference # NoRef => Fetchable(node.reference)
        /\ extracted' =
             IF node.reference # NoRef
             THEN extracted \cup {[dir |-> cwdOf(linkTree, p), name |-> node.name,
                                   reference |-> node.reference,
                                   stripN |-> virtualPath(node.reference)]}
             ELSE extracted
  /\ link' = [q \in DOMAIN link |->
                IF q = p THEN LinkTask("children", 0, 0)
                ELSE IF Len(q) = Len(p) + 1 /\ Parent(q) = p
                     THEN LinkTask("extract", 0, 0)
                     ELSE link[q]]
  /\ fetched' = [k \in DOMAIN fetched |->
                   fetched[k] + fetchCalls(NodeOf(linkTree, p), k)]
  /\ UNCHANGED <<pkgMeta, linkTree, symlinks, started, resVars, mainVars, optVars, arVars>>

\* getPackageDependencyTree (for a node with dependencies), fetchPackage or
\* extractNpmArchiveTo (for a node with a reference) throws.
LinkExtractFail(p) ==
  /\ pc = "linking"
  /\ p \in DOMAIN link
  /\ link[p].stage = "extract"
  /\ LET node == NodeOf(linkTree, p)
     IN \E k \in {"link-resolve", "link-fetch", "extract"} :
          /\ k = "link-resolve" => node.dependencies # <<>>
          /\ k \in {"link-fetch", "extract"} => node.reference # NoRef
          /\ Throw(p, Error(k, node.name, node.reference))
  /\ UNCHANGED <<linkVars, resVars, optVars, arVars>>

\* linkPackages for the dependency at p returned; its caller's callback reads
\* the dependency's package.json and goes on to the bin loop and the scripts.
LinkRequire(p) ==
  /\ pc = "linking"
  /\ p \in DOMAIN link /\ p # <<>>
  /\ link[p].stage = "children"
  /\ ChildrenDone(p)
  /\ LET name == NodeOf(linkTree, p).name
     IN \E meta \in (IF pkgMeta[name].st = "ok" THEN {pkgMeta[name]} ELSE Metas) :
          LET next == IF meta.bin > 0 THEN LinkTask("bin", 1, 0) ELSE afterBins(meta)
          IN /\ pkgMeta' = [pkgMeta EXCEPT ![name] = meta]
             /\ link' = [link EXCEPT ![p] = next]
             /\ started' = started \cup startedBy(p, next)
  /\ UNCHANGED <<linkTree, extracted, symlinks, fetched, resVars, mainVars, optVars, arVars>>

\* require(`${target}/package.json`) throws.
LinkRequireFail(p) ==
  /\ pc = "linking"
  /\ p \in DOMAIN link /\ p # <<>>
  /\ link[p].stage = "children"
  /\ ChildrenDone(p)
  /\ Throw(p, Error("require", NodeOf(linkTree, p).name, NodeOf(linkTree, p).reference))
  /\ UNCHANGED <<linkVars, resVars, optVars, arVars>>

\* fs.mkdirp and fs.symlink for one bin entry of the dependency at p.
LinkSymlink(p) ==
  /\ pc = "linking"
  /\ p \in DOMAIN link
  /\ link[p].stage = "bin"
  /\ LET name == NodeOf(linkTree, p).name
         meta == pkgMeta[name]
         next == IF link[p].bin < meta.bin THEN LinkTask("bin", link[p].bin + 1, 0)
                 ELSE afterBins(meta)
     IN /\ symlinks' = symlinks \cup
                         {[dir |-> cwdOf(linkTree, Parent(p)),
                           bin |-> <<name, link[p].bin>>,
                           target |-> cwdOf(linkTree, p)]}
        /\ link' = [link EXCEPT ![p] = next]
        /\ started' = started \cup startedBy(p, next)
  /\ UNCHANGED <<pkgMeta, linkTree, extracted, fetched, resVars, mainVars, optVars, arVars>>

LinkSymlinkFail(p) ==
  /\ pc = "linking"
  /\ p \in DOMAIN link
  /\ link[p].stage = "bin"
  /\ Throw(p, Error("symlink", NodeOf(linkTree, p).name, NodeOf(linkTree, p).reference))
  /\ UNCHANGED <<linkVars, resVars, optVars, arVars>>

\* The script of the running phase exits with code 0: exec of the next defined
\* phase, or the end of the callback.
LinkScriptExit(p) ==
  /\ pc = "linking"
  /\ p \in DOMAIN link
  /\ link[p].stage = "script"
  /\ LET meta == pkgMeta[NodeOf(linkTree, p).name]
         j == nextPhase(meta, link[p].phase)
         next == IF j = 0 THEN LinkTask("done", 0, 0) ELSE LinkTask("script", 0, j)
     IN /\ link' = [link EXCEPT ![p] = next]
        /\ started' = started \cup startedBy(p, next)
  /\ UNCHANGED <<pkgMeta, linkTree, extracted, symlinks, fetched, resVars, mainVars, optVars, arVars>>

\* The script exits with another code: exec rejects.
LinkScriptFail(p) ==
  /\ pc = "linking"
  /\ p \in DOMAIN link
  /\ link[p].stage = "script"
  /\ Throw(p, Error("script", NodeOf(linkTree, p).name, NodeOf(linkTree, p).reference))
  /\ UNCHANGED <<linkVars, resVars, optVars, arVars>>

\* The Promise.all of the root call is fulfilled; the top-level function ends
\* and the process exits with code 0.
LinkReturn ==
  /\ pc = "linking"
  /\ link[<<>>].stage = "children"
  /\ ChildrenDone(<<>>)
  /\ link' = [link EXCEPT ![<<>>] = LinkTask("done", 0, 0)]
  /\ pc' = "done"
  /\ exitCode' = 0
  /\ UNCHANGED <<pkgMeta, linkTree, extracted, symlinks, started, fetched, reported, errors,
                 resVars, optVars, arVars>>

LinkNext ==
  \/ \E p \in Paths : LinkExtract(p)
  \/ \E p \in Paths : LinkExtractFail(p)
  \/ \E p \in Paths : LinkRequire(p)
  \/ \E p \in Paths : LinkRequireFail(p)
  \/ \E p \in Paths : LinkSymlink(p)
  \/ \E p \in Paths : LinkSymlinkFail(p)
  \/ \E p \in Paths : LinkScriptExit(p)
  \/ \E p \in Paths : LinkScriptFail(p)
  \/ LinkReturn

Next == ResNext \/ MainLink \/ LinkNext

Spec == Init /\ [][Next]_vars

(***************************************************************************)
(* The input trees of the optimizer: a root over nodes whose children are  *)
(* leaves, and chains of three packages below the root.                    *)
(***************************************************************************)
OptRefs == {Exact(1, 0), Exact(2, 0)}

ListsOver(S) ==
  {s \in UNION {[1..k -> S] : k \in 0..MaxDeps} : DistinctNames(s)}

Leaves == {Node(n, r, <<>>) : n \in Names, r \in OptRefs}

Level1 == {Node(n, r, ds) : n \in Names, r \in OptRefs, ds \in ListsOver(Leaves)}

Chains ==
  {Node("root", NoRef, <<Node(x.name, x.reference,
                               <<Node(y.name, y.reference, <<z>>)>>)>>) :
     x \in Leaves, y \in Leaves, z \in Leaves}

\* A root with one child that has MaxDeps + 1 children.
Wide ==
  {Node("root", NoRef, <<Node(n, r, ds)>>) :
     n \in Names, r \in OptRefs,
     ds \in {s \in [1..(MaxDeps + 1) -> Leaves] : DistinctNames(s)}}

InputTrees ==
  {Node("root", NoRef, ds) : ds \in ListsOver(Level1)} \cup Chains \cup Wide

OptInit ==
  /\ ResIdle
  /\ ArIdle
  /\ optIn \in InputTrees
  /\ optDeps = <<>>
  /\ optI = 0
  /\ optJ = 0
  /\ optSnap = <<>>
  /\ optPc = "start"
  /\ optOut = undefined
  /\ optKept = {}
  /\ optHeap = InputHeap(optIn)
  /\ optRefSnap = <<>>

\* dependencies = dependencies.map((dependency) => optimizePackageTree(dependency))
OptStart ==
  /\ optPc = "start"
  /\ optDeps' = [k \in 1..Len(optIn.dependencies) |->
                   optimizePackageTree(optIn.dependencies[k])]
  /\ optI' = 1
  /\ optJ' = 1
  /\ optSnap' = IF Len(optIn.dependencies) >= 1
                THEN optimizePackageTree(optIn.dependencies[1]).dependencies
                ELSE <<>>
  /\ optPc' = "loop"
  /\ optHeap' = mapStep(optHeap, RootId)
  /\ optRefSnap' = LET A == mapStep(optHeap, RootId)[mapTarget(RootId)]
                   IN IF Len(A) >= 1 THEN mapStep(optHeap, RootId)[A[1].dependencies]
                      ELSE <<>>
  /\ UNCHANGED <<optIn, optOut, optKept, resVars, mainVars, linkVars, arVars>>

\* One pass of the inner loop body, for subDependency = optSnap[optJ].
OptHoist ==
  /\ optPc = "loop"
  /\ optI <= Len(optIn.dependencies)
  /\ optJ <= Len(optSnap)
  /\ LET sub == optSnap[optJ]
         found == availableDependency(optDeps, sub)
     IN /\ optDeps' = hoistBody(optDeps, optI, sub)
        /\ optKept' = IF found # undefined /\ found.reference # sub.reference
                      THEN optKept \cup {<<optI, sub>>}
                      ELSE optKept
  /\ optJ' = optJ + 1
  /\ optHeap' = heapBody(optHeap, mapTarget(RootId),
                         optHeap[mapTarget(RootId)][optI].dependencies,
                         optRefSnap[optJ])
  /\ UNCHANGED <<optIn, optI, optSnap, optPc, optOut, optRefSnap, resVars, mainVars,
                 linkVars, arVars>>

\* The inner loop is over; the outer loop takes the next hardDependency.
OptNextChild ==
  /\ optPc = "loop"
  /\ optI <= Len(optIn.dependencies)
  /\ optJ > Len(optSnap)
  /\ optI' = optI + 1
  /\ optJ' = 1
  /\ optSnap' = IF optI + 1 <= Len(optIn.dependencies)
                THEN optDeps[optI + 1].dependencies
                ELSE <<>>
  /\ optRefSnap' = IF optI + 1 <= Len(optIn.dependencies)
                   THEN optHeap[optHeap[mapTarget(RootId)][optI + 1].dependencies]
                   ELSE <<>>
  /\ UNCHANGED <<optIn, optDeps, optPc, optOut, optKept, optHeap, resVars, mainVars,
                 linkVars, arVars>>

\* return { name, reference, dependencies }
OptReturn ==
  /\ optPc = "loop"
  /\ optI > Len(optIn.dependencies)
  /\ optOut' = Node(optIn.name, optIn.reference, optDeps)
  /\ optPc' = "done"
  /\ UNCHANGED <<optIn, optDeps, optI, optJ, optSnap, optKept, optHeap, optRefSnap,
                 resVars, mainVars, linkVars, arVars>>

OptNext == OptStart \/ OptHoist \/ OptNextChild \/ OptReturn

SpecOptimize == OptInit /\ [][OptNext]_vars

(***************************************************************************)
(* getFileName and readFileFromArchive.  A name is the sequence of its     *)
(* characters; the data of an entry is the sequence of the chunks its      *)
(* stream delivers, a chunk being a sequence of bytes.                     *)
(***************************************************************************)
MaxNameLen == 4

MaxEntries == 2

MaxStrip == 2

Chars == {"/", "p", "j"}

\* What getFileName returns for a name with too few '/': no string equals it.
null == <<"null">>

\* entryName.indexOf('/'): the 0-based index of the first '/', or -1
indexOf(entryName) ==
  IF \E k \in 1..Len(entryName) : entryName[k] = "/"
  THEN (CHOOSE k \in 1..Len(entryName) :
          /\ entryName[k] = "/"
          /\ \A l \in 1..(k - 1) : entryName[l] # "/") - 1
  ELSE -1

\* entryName.substr(from)
substr(entryName, from) == SubSeq(entryName, from + 1, Len(entryName))

\* entryName.replace(/^\/+/, '')
RECURSIVE replaceLeadingSlashes(_)
replaceLeadingSlashes(entryName) ==
  IF entryName # <<>> /\ Head(entryName) = "/"
  THEN replaceLeadingSlashes(Tail(entryName))
  ELSE entryName

\* The loop of getFileName from its pass t on.
RECURSIVE getFileNameLoop(_, _, _)
getFileNameLoop(entryName, stripN, t) ==
  IF t >= stripN THEN entryName
  ELSE LET index == indexOf(entryName)
       IN IF index = -1 THEN null
          ELSE getFileNameLoop(substr(entryName, index + 1), stripN, t + 1)

\* getFileName(entryName, virtualPath): the name without its leading slashes
\* goes to parsedEntryName, which nothing reads; the loop works on entryName.
getFileName(entryName, stripN) ==
  LET parsedEntryName == replaceLeadingSlashes(entryName)
  IN getFileNameLoop(entryName, stripN, 0)

\* Buffer.concat(buffers)
RECURSIVE Buffer_concat(_)
Buffer_concat(buffers) ==
  IF buffers = <<>> THEN <<>> ELSE Head(buffers) \o Buffer_concat(Tail(buffers))

\* resolve or reject of a promise: only the first call settles it.
Settle(promise, st, kind, val) ==
  IF promise.st = "pending" THEN [st |-> st, kind |-> kind, val |-> val] ELSE promise

EntryNames == UNION {[1..k -> Chars] : k \in 0..MaxNameLen}

\* An entry of size 0, and an entry read in two chunks.
Datas == {<<>>, <<<<1>>, <<2, 3>>>>}

\* The entry whose stream is open, and whether the handler took it for the
\* requested file.
Current == arEntries[Len(arEntries)]

\* readFileFromArchive has returned its promise: the handlers are registered,
\* the buffer is written to the gunzipper and the gunzipper is ended.
ArInit ==
  /\ OptIdle
  /\ ResIdle
  /\ arFileName \in {<<"j">>, <<"p", "/", "j">>}
  /\ arVirtualPath \in 0..MaxStrip
  /\ arEntries = <<>>
  /\ arStream = [st |-> "none", rest |-> <<>>]
  /\ arBuffers = <<>>
  /\ arPromise = [st |-> "pending", kind |-> "", val |-> <<>>]
  /\ arExtractor = "parsing"

\* extractor.on('entry', (header, stream, next) => ...): the comparison, the
\* listeners, stream.resume().
ArEntry ==
  /\ arExtractor = "parsing"
  /\ Len(arEntries) < MaxEntries
  /\ \E name \in EntryNames, data \in Datas :
       LET stripped == getFileName(name, arVirtualPath)
       IN /\ arEntries' = Append(arEntries,
                                 [name |-> name, data |-> data, fileName |-> stripped,
                                  match |-> (stripped = arFileName),
                                  drained |-> FALSE, advanced |-> FALSE])
          /\ arBuffers' = IF stripped = arFileName THEN <<>> ELSE arBuffers
          /\ arStream' = [st |-> "flowing", rest |-> data]
  /\ arExtractor' = "entry"
  /\ UNCHANGED <<arFileName, arVirtualPath, arPromise, optVars, resVars, mainVars,
                 linkVars>>

\* stream 'data': buffers.push(data) for the matching entry; the data of another
\* entry has no listener and is dropped.
ArData ==
  /\ arStream.st = "flowing"
  /\ arStream.rest # <<>>
  /\ arBuffers' = IF Current.match THEN Append(arBuffers, Head(arStream.rest))
                  ELSE arBuffers
  /\ arStream' = [arStream EXCEPT !.rest = Tail(arStream.rest)]
  /\ UNCHANGED <<arFileName, arVirtualPath, arEntries, arPromise, arExtractor,
                 optVars, resVars, mainVars, linkVars>>

\* stream 'end': resolve(Buffer.concat(buffers)) for the matching entry, and
\* next is never called; next() for another entry.
ArEnd ==
  /\ arStream.st = "flowing"
  /\ arStream.rest = <<>>
  /\ arStream' = [st |-> "ended", rest |-> <<>>]
  /\ arEntries' = [arEntries EXCEPT ![Len(arEntries)].drained = TRUE,
                                    ![Len(arEntries)].advanced = ~Current.match]
  /\ arPromise' = IF Current.match
                  THEN Settle(arPromise, "resolved", "", Buffer_concat(arBuffers))
                  ELSE arPromise
  /\ arExtractor' = IF Current.match THEN arExtractor ELSE "parsing"
  /\ UNCHANGED <<arFileName, arVirtualPath, arBuffers, optVars, resVars, mainVars,
                 linkVars>>

\* extractor 'finish': the archive is over and every entry was advanced past.
ArFinish ==
  /\ arExtractor = "parsing"
  /\ arExtractor' = "finished"
  /\ arPromise' = Settle(arPromise, "rejected", "not-found", arFileName)
  /\ UNCHANGED <<arFileName, arVirtualPath, arEntries, arStream, arBuffers,
                 optVars, resVars, mainVars, linkVars>>

\* 'error' of the extractor, of the gunzipper, or of the stream of the matching
\* entry: reject(error).
ArError ==
  /\ arExtractor \in {"parsing", "entry"}
  /\ \E source \in {"extractor", "gunzipper", "stream"} :
       /\ source = "stream" => arStream.st = "flowing" /\ Current.match
       /\ arPromise' = Settle(arPromise, "rejected", source, <<>>)
  /\ arExtractor' = "errored"
  /\ arStream' = [st |-> "none", rest |-> <<>>]
  /\ UNCHANGED <<arFileName, arVirtualPath, arEntries, arBuffers,
                 optVars, resVars, mainVars, linkVars>>

ArNext == ArEntry \/ ArData \/ ArEnd \/ ArFinish \/ ArError

SpecArchive == ArInit /\ [][ArNext]_vars

(***************************************************************************)
(* Properties of optimizePackageTree                                       *)
(***************************************************************************)
RECURSIVE DistinctEverywhere(_)
DistinctEverywhere(node) ==
  /\ DistinctNames(node.dependencies)
  /\ \A k \in 1..Len(node.dependencies) : DistinctEverywhere(node.dependencies[k])

\* The inner loop body is being run for hardDependency = optDeps[optI] and
\* subDependency = optSnap[optJ].
HoistStep ==
  /\ optPc = "loop"
  /\ optI <= Len(optIn.dependencies)
  /\ optJ <= Len(optSnap)
  /\ optJ' = optJ + 1

NoSibling(G) == \A k \in 1..Len(optDeps) : optDeps[k].name # G.name

SameSibling(G) ==
  \E k \in 1..Len(optDeps) :
    optDeps[k].name = G.name /\ optDeps[k].reference = G.reference

\* C2: when the children of every node of the input tree have pairwise distinct
\* names, the children of every node of the tree optimizePackageTree returns
\* (the root and every nested node) have pairwise distinct names.
C2_DistinctSiblingNames ==
  (optPc = "done" /\ DistinctEverywhere(optIn)) => DistinctEverywhere(optOut)

\* A run that hoisted a grandchild to the root and left another one nested.
C2_Witness ==
  /\ optPc = "done"
  /\ DistinctEverywhere(optIn)
  /\ Len(optOut.dependencies) > Len(optIn.dependencies)
  /\ \E k \in 1..Len(optOut.dependencies) : optOut.dependencies[k].dependencies # <<>>

HoistExample ==
  Node("root", NoRef,
       << Node("a", Exact(1, 0), <<Node("c", Exact(1, 0), <<>>)>>),
          Node("b", Exact(1, 0), <<Node("c", Exact(1, 0), <<>>)>>) >>)

HoistExampleResult ==
  Node("root", NoRef,
       << Node("a", Exact(1, 0), <<>>),
          Node("b", Exact(1, 0), <<>>),
          Node("c", Exact(1, 0), <<>>) >>)

C3_Step ==
  HoistStep =>
    LET G == optSnap[optJ]
        n == Len(optDeps)
    IN /\ NoSibling(G) =>
            /\ Len(optDeps') = n + 1
            /\ optDeps'[n + 1] = G
            /\ \A k \in 1..n : k # optI => optDeps'[k] = optDeps[k]
            /\ G.name \notin NamesOf(optDeps'[optI].dependencies)
       /\ SameSibling(G) =>
            /\ Len(optDeps') = n
            /\ \A k \in 1..n : k # optI => optDeps'[k] = optDeps[k]
            /\ optDeps'[optI].name = optDeps[optI].name
            /\ optDeps'[optI].reference = optDeps[optI].reference
            /\ G.name \notin NamesOf(optDeps'[optI].dependencies)

\* C3: while a node is processed, a grandchild G of child C whose name no child
\* of the node has is appended to the end of the node's children and is no
\* longer a child of C; a grandchild whose name and reference a child of the
\* node has is no longer a child of C and the node's children are otherwise
\* unchanged.  root -> a -> c@1, root -> b -> c@1 gives root -> [a, b, c@1].
C3_HoistOrSubsume ==
  /\ [][C3_Step]_vars
  /\ []((optPc = "done" /\ optIn = HoistExample) => optOut = HoistExampleResult)

\* The example was optimized: c was hoisted from a and subsumed under b.
C3_Witness ==
  /\ optPc = "done"
  /\ optIn = HoistExample
  /\ optOut = HoistExampleResult

\* C4: a grandchild G of child C for which the node has a child of G's name
\* with another reference is still a child of C in the returned tree.
C4_ConflictLeftInPlace ==
  optPc = "done" =>
    \A kept \in optKept :
      kept[2] \in Range(optOut.dependencies[kept[1]].dependencies)

C5_Step ==
  HoistStep =>
    LET G == optSnap[optJ]
        before == optDeps[optI].dependencies
        after == optDeps'[optI].dependencies
        IsOther(d) == d.name # G.name
    IN (NoSibling(G) \/ SameSibling(G)) =>
         /\ Len(after) = Len(before) - 1
         /\ after = SelectSeq(before, IsOther)

\* C5: each removal of a grandchild G from its parent C deletes exactly the one
\* entry of C's children named G.name; the other entries stay, in order.
C5_RemovesExactlyOne == [][C5_Step]_vars

(***************************************************************************)
(* Properties of the resolver                                              *)
(***************************************************************************)
RECURSIVE AllPinned(_)
AllPinned(node) ==
  \A k \in 1..Len(node.dependencies) :
    /\ node.dependencies[k].reference.kind \in {"exact", "url", "path"}
    /\ AllPinned(node.dependencies[k])

\* C1: every non-root node of the tree getPackageDependencyTree returns, at
\* every depth, carries an exact version, a URL or a path, never a range.
C1_NodesArePinned == pc = "resolved" => AllPinned(packageTree)

\* A tree was returned that has a node two levels below the root and a node
\* whose descriptor was a range.
C1_Witness ==
  /\ pc = "resolved"
  /\ \E p \in Paths : Len(p) = 2 /\ tasks[p].stage = "wait"
  /\ \E p \in Paths : tasks[p].stage = "wait" /\ tasks[p].reference.kind = "range"

\* The pins of the callback at p and of its ancestors, the deepest one winning.
RECURSIVE PinsAlong(_)
PinsAlong(p) ==
  IF p = <<>> THEN EmptyMap
  ELSE [PinsAlong(Parent(p)) EXCEPT ![tasks[p].name] = tasks[p].pinned]

Marker == Node("unknown", NoRef, <<>>)

\* The tree as a sequential resolver computes it from the manifest and the
\* registry's answers alone.
RECURSIVE RefChildren(_, _, _, _)
RefChildren(dependencies, available, k, depth) ==
  IF k > Len(dependencies) THEN <<>>
  ELSE LET d == dependencies[k]
           rest == RefChildren(dependencies, available, k + 1, depth)
       IN IF ~isVolatileDependency(d, available) THEN rest
          ELSE IF depth > MaxDepth THEN <<Marker>> \o rest
          ELSE IF needsQuery(d.reference) /\ regVersions[d.name].st # "ok"
               THEN <<Marker>> \o rest
          ELSE LET pinned == IF needsQuery(d.reference)
                             THEN semver_maxSatisfying(regVersions[d.name].val,
                                                       d.reference)
                             ELSE d.reference
               IN IF ~Fetchable(pinned) THEN <<Marker>> \o rest
                  ELSE IF regDeps[<<d.name, pinned>>].st # "ok"
                       THEN <<Marker>> \o rest
                  ELSE <<Node(d.name, pinned,
                              RefChildren(regDeps[<<d.name, pinned>>].val,
                                          [available EXCEPT ![d.name] = pinned],
                                          1, depth + 1))>> \o rest

RefTree == Node("root", NoRef, RefChildren(manifest, EmptyMap, 1, 1))

\* C6: whatever the interleaving of the concurrently resolved siblings, the
\* returned tree is the one the manifest and the registry's answers determine
\* (children in the order of the declaring list), and the map a callback passes
\* down holds the pins of its node and of its ancestors only.
C6_DeterministicAndIsolated ==
  /\ pc = "resolved" => packageTree = RefTree
  /\ \A p \in Paths :
       (p # <<>> /\ tasks[p].stage = "wait") =>
         maps[tasks[p].subAvailable] = PinsAlong(p)

\* Two siblings were resolved and each has a child of its own.
C6_Witness ==
  /\ pc = "resolved"
  /\ tasks[<<1>>].stage = "wait" /\ tasks[<<2>>].stage = "wait"
  /\ tasks[<<1, 1>>].stage = "wait"
  /\ tasks[<<2, 1>>].stage = "wait"
  /\ tasks[<<2, 1>>].name = tasks[<<1>>].name

\* The map the callback at p filtered its dependency list with.
AvailableOf(p) == IF p = <<>> THEN EmptyMap ELSE maps[tasks[p].subAvailable]

Satisfied(d, available) ==
  \/ available[d.name] # NoRef /\ available[d.name] = d.reference
  \/ /\ available[d.name] # NoRef
     /\ semver_validRange(d.reference)
     /\ semver_satisfies(available[d.name], d.reference)

\* C7: a descriptor d is skipped (no child, no pin, no fetch) exactly when
\* available[d.name] equals d.reference or d.reference is a valid range that
\* available[d.name] satisfies; without an entry for d.name it is resolved.
C7_SkippedIffSatisfied ==
  \A p \in Paths :
    (tasks[p].stage = "wait" /\ Len(p) < MaxDepth) =>
      \A i \in 1..Len(tasks[p].deps) :
        LET d == tasks[p].deps[i]
            child == tasks[Append(p, i)]
        IN /\ child.stage # "none"
           /\ child.stage = "skipped" <=> Satisfied(d, AvailableOf(p))
           /\ child.stage = "skipped" => child.pinned = NoRef /\ ~child.queried
           /\ AvailableOf(p)[d.name] = NoRef => child.stage # "skipped"

\* One descriptor was skipped for a satisfied range, one for an equal
\* reference, and one whose name had no entry was resolved below a dependency.
C7_Witness ==
  /\ \E p \in Paths : tasks[p].stage = "skipped" /\ tasks[p].reference.kind = "range"
  /\ \E p \in Paths : tasks[p].stage = "skipped" /\ tasks[p].reference.kind = "exact"
  /\ \E p \in Paths :
       /\ Len(p) = 2
       /\ tasks[p].stage = "wait"
       /\ AvailableOf(Parent(p))[tasks[p].name] = NoRef

\* C8: for a range that is no exact version getPinnedReference asks the
\* registry and returns the highest listed version that satisfies the range,
\* and fails with the unsatisfied-range error when none does; a version, a URL
\* or a path is returned unchanged without a registry query.
C8_PinnedReference ==
  /\ \A p \in Paths :
       (p # <<>> /\ tasks[p].stage \in {"package", "wait"}) =>
         LET t == tasks[p]
             listed == regVersions[t.name].val
         IN IF t.reference.kind = "range"
            THEN /\ t.queried
                 /\ regVersions[t.name].st = "ok"
                 /\ t.pinned \in Range(listed)
                 /\ semver_satisfies(t.pinned, t.reference)
                 /\ \A v \in Range(listed) :
                      semver_satisfies(v, t.reference) =>
                        semver_compare(v, t.pinned) <= 0
            ELSE t.pinned = t.reference /\ ~t.queried
  /\ (pc = "exited" /\ reported.kind = "unsatisfied-range") =>
       /\ regVersions[reported.name].st = "ok"
       /\ reported.reference.kind = "range"
       /\ \A v \in Range(regVersions[reported.name].val) :
            ~semver_satisfies(v, reported.reference)

\* A range was pinned to 1.1.0 out of [1.0.0, 1.1.0, 2.0.0] and a URL passed
\* through.
C8_Witness ==
  /\ \E p \in Paths :
       /\ tasks[p].stage = "wait"
       /\ tasks[p].reference = Caret(1, 0)
       /\ regVersions[tasks[p].name].val = <<V10, V11, V20>>
       /\ tasks[p].pinned = V11
  /\ \E p \in Paths : tasks[p].stage = "wait" /\ tasks[p].reference = Url(1)

(***************************************************************************)
(* Properties of the whole run                                             *)
(***************************************************************************)
ResolveKinds == {"unsatisfied-range", "version-query", "fetch", "archive", "json"}

\* C9: a failure of any step of resolution or linking, in any node and under
\* any interleaving, ends the run with exit code 1 and the first error that
\* occurred as the reported one; linking has not started when resolution
\* failed; a run that ends with exit code 0 had no failure.
C9_FailureExits ==
  /\ errors # <<>> =>
       /\ pc = "exited"
       /\ exitCode = 1
       /\ reported = errors[1]
  /\ exitCode = 0 => errors = <<>> /\ pc = "done"
  /\ (pc = "exited" /\ reported.kind \in ResolveKinds) =>
       /\ linkTree = undefined
       /\ extracted = {}
       /\ symlinks = {}
       /\ started = {}

\* A lifecycle script failed while a sibling was still being installed.
C9_Witness ==
  /\ pc = "exited"
  /\ exitCode = 1
  /\ reported.kind = "script"
  /\ \E p, q \in DOMAIN link :
       /\ p # q /\ Len(p) = Len(q)
       /\ link[p].stage = "script"
       /\ link[q].stage \in {"extract", "bin", "script"}

\* C10 as stated: stripN is 1 for a version or a URL and 0 for a path.
C10_StripByReference ==
  \A e \in extracted :
    e.stripN = (IF e.reference.kind = "path" THEN 0 ELSE 1)

\* C10, amended: every non-root node the linker installs is extracted with
\* stripN = 1, whether its reference is a version, a URL or a path.
C10_StripAlwaysOne ==
  /\ \A e \in extracted : e.stripN = 1
  /\ \A p \in DOMAIN link :
       (p # <<>> /\ link[p].stage \notin {"none", "extract"}) =>
         \E e \in extracted :
           /\ e.dir = cwdOf(linkTree, p)
           /\ e.reference = NodeOf(linkTree, p).reference

\* A package given by a path and a package given by a version were extracted.
C10_Witness ==
  /\ \E e \in extracted : e.reference.kind = "path"
  /\ \E e \in extracted : e.reference.kind = "exact"

(***************************************************************************)
(* Properties of linkPackages                                              *)
(***************************************************************************)
\* The nodes of the subtree below p.
Below(p) == {q \in DOMAIN link : Len(q) > Len(p) /\ SubSeq(q, 1, Len(p)) = p}

ExtractedAt(p) ==
  \E e \in extracted : /\ e.dir = cwdOf(linkTree, p)
                       /\ e.name = NodeOf(linkTree, p).name
                       /\ e.reference = NodeOf(linkTree, p).reference

SymlinksOf(p) == {s \in symlinks : s.target = cwdOf(linkTree, p)}

PhasesStarted(p) == {ph \in Range(Phases) : <<p, ph>> \in started}

\* The install of the node at p is complete: extracted, every bin linked, every
\* defined script started and exited, the callback ended.
Finished(p) ==
  LET meta == pkgMeta[NodeOf(linkTree, p).name]
  IN /\ link[p].stage = "done"
     /\ ExtractedAt(p)
     /\ meta.st = "ok"
     /\ {s.bin[2] : s \in SymlinksOf(p)} = 1..meta.bin
     /\ PhasesStarted(p) = meta.scripts

\* C11: when a bin symlink of a dependency D exists or a script of D has
\* started, D is extracted and every node below D is completely installed
\* (extracted, bins linked, scripts run); and the linkPackages call of a node
\* has returned only when all of its children are completely installed.
C11_SubtreeLinkedFirst ==
  linkTree # undefined =>
    /\ \A p \in DOMAIN link \ {<<>>} :
         (SymlinksOf(p) # {} \/ PhasesStarted(p) # {}) =>
           /\ ExtractedAt(p)
           /\ \A q \in Below(p) : Finished(q)
    /\ \A p \in DOMAIN link :
         link[p].stage \in {"bin", "script", "done"} =>
           \A q \in Below(p) : Finished(q)

\* A dependency with a dependency of its own was given a bin symlink and ran a
\* script, and the root call returned.
C11_Witness ==
  /\ pc = "done"
  /\ \E p \in DOMAIN link :
       /\ Len(p) = 1
       /\ Below(p) # {}
       /\ SymlinksOf(p) # {}
       /\ PhasesStarted(p) # {}
       /\ \E q \in Below(p) : SymlinksOf(q) # {}

\* One step seen from the scripts of the dependency at p: a script of phase j
\* starts only in a run without a failure, when the phase is defined, every bin
\* of p is linked, every defined earlier phase was started and is not running
\* any more, and no later phase was started; a callback ends only when all the
\* defined phases were started.
C12_Step ==
  /\ (errors # <<>> \/ errors' # errors) => started' = started
  /\ \A p \in DOMAIN link :
       LET meta == pkgMeta'[NodeOf(linkTree, p).name]
       IN /\ \A j \in 1..Len(Phases) :
               (<<p, Phases[j]>> \in started' \ started) =>
                 /\ Phases[j] \in meta.scripts
                 /\ link'[p] = LinkTask("script", 0, j)
                 /\ {s.bin[2] : s \in {t \in symlinks' : t.target = cwdOf(linkTree, p)}}
                      = 1..meta.bin
                 /\ \A i \in 1..(j - 1) :
                      Phases[i] \in meta.scripts => <<p, Phases[i]>> \in started
                 /\ \A i \in (j + 1)..Len(Phases) : <<p, Phases[i]>> \notin started
                 /\ link[p].stage = "script" => link[p].phase < j
                 /\ link[p].stage \in {"children", "bin", "script"}
          /\ (link[p].stage # "done" /\ link'[p].stage = "done" /\ p # <<>>) =>
               {ph \in Range(Phases) : <<p, ph>> \in started'} = meta.scripts

\* C12: the scripts of one dependency start in the order preinstall, install,
\* postinstall, each after the previous one exited with success and after all
\* the bin symlinks of the dependency; undefined phases are skipped; after a
\* failing phase no script starts.
C12_ScriptsInOrder == [][C12_Step]_vars

\* Two siblings run a script at the same time, one of them its postinstall
\* after its preinstall, its bin being linked.
C12_Witness ==
  /\ pc = "linking"
  /\ \E p, q \in DOMAIN link :
       /\ p # q /\ Len(p) = Len(q) /\ Parent(p) = Parent(q)
       /\ link[p] = LinkTask("script", 0, 3)
       /\ <<p, "preinstall">> \in started
       /\ SymlinksOf(p) # {}
       /\ link[q].stage = "script"

\* The nodes of the linked tree that are the package k = <<name, reference>> and
\* whose linkPackages call is past its fetch and extraction.
InstalledAs(k) ==
  {p \in DOMAIN link \ {<<>>} :
     /\ link[p].stage \notin {"none", "extract"}
     /\ k = <<NodeOf(linkTree, p).name, NodeOf(linkTree, p).reference>>}

\* C13: the root is never fetched or extracted; every non-root node is fetched
\* once and extracted once, into the install directory followed by
\* /spm_node_modules/<name> for every name on the path from the root to the
\* node; nothing is extracted into another directory.
C13_FetchedAndExtractedOnce ==
  linkTree # undefined =>
    /\ \A e \in extracted :
         /\ e.reference # NoRef /\ e.dir # <<>>
         /\ \E p \in DOMAIN link \ {<<>>} :
              /\ link[p].stage \notin {"none", "extract"}
              /\ e = [dir |-> cwdOf(linkTree, p), name |-> NodeOf(linkTree, p).name,
                      reference |-> NodeOf(linkTree, p).reference, stripN |-> e.stripN]
    /\ \A e, f \in extracted : e.dir = f.dir => e = f
    /\ \A p \in DOMAIN link \ {<<>>} :
         link[p].stage \notin {"none", "extract"} => ExtractedAt(p)
    /\ \A k \in DOMAIN fetched :
         (pc = "done" \/ InstalledAs(k) # {}) =>
           fetched[k] = Cardinality(InstalledAs(k))

(***************************************************************************)
(* Properties of getFileName and readFileFromArchive                       *)
(***************************************************************************)
\* The first n '/'-delimited components removed; null with fewer than n '/'.
RECURSIVE StripComponents(_, _)
StripComponents(s, n) ==
  IF n = 0 THEN s
  ELSE IF indexOf(s) = -1 THEN null
       ELSE StripComponents(substr(s, indexOf(s) + 1), n - 1)

\* The name an entry has by the contract of getFileName.
Normalized(entryName, stripN) ==
  StripComponents(replaceLeadingSlashes(entryName), stripN)

\* C14: for every entry name, with or without leading slashes, getFileName
\* gives the name without its leading slashes and without its first stripN
\* components, and the marker when there are fewer components.
C14_StripsSlashesThenComponents ==
  \A i \in 1..Len(arEntries) :
    arEntries[i].fileName = Normalized(arEntries[i].name, arVirtualPath)

\* The entries whose normalized name is the requested file.
Matching == {i \in 1..Len(arEntries) :
               Normalized(arEntries[i].name, arVirtualPath) = arFileName}

\* C15: the promise resolves with the bytes of the first entry whose stripped
\* name is the requested file, as soon as that entry is read; it rejects with a
\* not-found error naming the file only when no entry matches and every entry
\* was drained and advanced past; it is settled once the archive has ended.
C15_FirstMatchOrNotFound ==
  /\ arPromise.st = "resolved" =>
       \E i \in Matching :
         /\ \A j \in Matching : i <= j
         /\ arPromise.val = Buffer_concat(arEntries[i].data)
  /\ (\E i \in Matching : arEntries[i].drained) =>
       (arPromise.st = "resolved" \/ arPromise.kind \in {"extractor", "gunzipper", "stream"})
  /\ (arPromise.st = "rejected" /\ arPromise.kind = "not-found") =>
       /\ arPromise.val = arFileName
       /\ Matching = {}
       /\ \A i \in 1..Len(arEntries) : arEntries[i].drained /\ arEntries[i].advanced
  /\ arExtractor \in {"finished", "errored"} => arPromise.st # "pending"

(***************************************************************************)
(* Termination of getPackageDependencyTree                                 *)
(***************************************************************************)
\* C16 as stated: over a registry without a cycle and with every fetch
\* succeeding, getPackageDependencyTree eventually returns a tree.
C16_EventuallyReturns == <>(pc = "resolved")

\* C16, amended: it eventually returns a tree or rejects because a declared
\* range has no published version that satisfies it.
C16_EventuallySettles ==
  <>(\/ pc = "resolved"
     \/ pc = "exited" /\ reported.kind = "unsatisfied-range")

\* A tree with two branches, one of them two levels deep, was returned.
C16_Witness ==
  /\ pc = "resolved"
  /\ Len(packageTree.dependencies) = 2
  /\ \E k \in 1..2 : packageTree.dependencies[k].dependencies # <<>>

(***************************************************************************)
(* The trees are not written to                                            *)
(***************************************************************************)
\* The identities of the arrays that can be reached from the array id.
RECURSIVE ReachableFrom(_, _)
ReachableFrom(h, id) ==
  {id} \cup UNION {ReachableFrom(h, h[id][k].dependencies) : k \in 1..Len(h[id])}

\* C17: after optimizePackageTree the arrays of its input tree hold what they
\* held before, at every depth, and the tree it returned is made of new arrays
\* only; during and after linkPackages the tree linkPackages was given is the
\* tree optimizePackageTree returned.
C17_TreesUnchanged ==
  linkTree # undefined =>
    /\ \A p \in NodePaths(packageTree) :
         optHeap[<<"in", p>>] = InputHeap(packageTree)[<<"in", p>>]
    /\ ValueOf(optHeap, RootId) = packageTree.dependencies
    /\ \A id \in ReachableFrom(optHeap, <<"out", <<>>>>) : id[1] = "out"
    /\ ValueOf(optHeap, <<"out", <<>>>>) = linkTree.dependencies
    /\ linkTree = optimizePackageTree(packageTree)

\* The optimizer hoisted a package and kept another one nested, and the linker
\* has installed the tree.
C17_Witness ==
  /\ pc = "done"
  /\ Len(linkTree.dependencies) > Len(packageTree.dependencies)
  /\ \E k \in 1..Len(linkTree.dependencies) : linkTree.dependencies[k].dependencies # <<>>

(***************************************************************************)
(* What the optimizer keeps                                                *)
(***************************************************************************)
\* The (name, reference) pairs of the nodes below a node.
RECURSIVE PairsBelow(_)
PairsBelow(node) ==
  UNION {{<<node.dependencies[k].name, node.dependencies[k].reference>>}
           \cup PairsBelow(node.dependencies[k]) :
         k \in 1..Len(node.dependencies)}

\* C18: the tree optimizePackageTree returns holds the same (name, reference)
\* pairs as the tree it was given: no package is lost and none is invented.
C18_SamePackages ==
  optPc = "done" => PairsBelow(optOut) = PairsBelow(optIn)

(***************************************************************************)
(* Scripts and the packages they depend on                                 *)
(***************************************************************************)
\* The (name, reference) pairs that the package of the node at p of the linked
\* tree depends on in the resolved tree, before optimization.
ResolvedDependencies(p) ==
  UNION {{<<NodeOf(packageTree, q).dependencies[k].name,
            NodeOf(packageTree, q).dependencies[k].reference>> :
          k \in 1..Len(NodeOf(packageTree, q).dependencies)} :
         q \in {r \in NodePaths(packageTree) \ {<<>>} :
                  /\ NodeOf(packageTree, r).name = NodeOf(linkTree, p).name
                  /\ NodeOf(packageTree, r).reference = NodeOf(linkTree, p).reference}}

\* C19: while a script of a dependency D runs, and so when it started, every
\* package D depends on in the resolved tree is extracted, hoisted or not.
C19_DependenciesExtractedFirst ==
  linkTree # undefined =>
    \A p \in DOMAIN link \ {<<>>} :
      link[p].stage = "script" =>
        \A d \in ResolvedDependencies(p) :
          \E e \in extracted : e.name = d[1] /\ e.reference = d[2]

(***************************************************************************)
(* Resolution over a registry with cycles                                  *)
(***************************************************************************)
\* The callbacks on the branch of p that are above p, the top call excepted.
AncestorsOf(p) == {SubSeq(p, 1, k) : k \in 1..(Len(p) - 1)}

\* The nearest callback above p that resolved the name of p's descriptor.
NearestSameName(p) ==
  LET same == {r \in AncestorsOf(p) : tasks[r].name = tasks[p].name}
  IN CHOOSE r \in same : \A r2 \in same : Len(r2) <= Len(r)

RECURSIVE NoNameRepeats(_, _)
NoNameRepeats(node, seen) ==
  \A k \in 1..Len(node.dependencies) :
    /\ node.dependencies[k].name \notin seen
    /\ NoNameRepeats(node.dependencies[k], seen \cup {node.dependencies[k].name})

\* A descriptor that names a package resolved above it on its branch is skipped
\* when the pin of that package equals its reference or satisfies its range.
PrunedByAncestor ==
  \A p \in Paths :
    (/\ tasks[p].stage # "none"
     /\ \E r \in AncestorsOf(p) : tasks[r].name = tasks[p].name
     /\ tasks[NearestSameName(p)].stage = "wait"
     /\ \/ tasks[NearestSameName(p)].pinned = tasks[p].reference
        \/ /\ semver_validRange(tasks[p].reference)
           /\ semver_satisfies(tasks[NearestSameName(p)].pinned, tasks[p].reference))
    => tasks[p].stage = "skipped"

\* C20: dependencies on a package of the same branch are pruned when its pin
\* equals or satisfies the declared reference; so over a registry with cycles
\* in which each name has one version, getPackageDependencyTree returns, and
\* the tree has no name twice on a path from the root.
C20_CyclesArePruned ==
  /\ [](PrunedByAncestor)
  /\ [](pc = "resolved" => NoNameRepeats(packageTree, {}))
  /\ <>(pc = "resolved")

\* The registry a@1.0.0 -> b@1.0.0 -> a@^1.0.0 was resolved to root -> a -> b.
C20_Witness ==
  /\ pc = "resolved"
  /\ regDeps[<<"a", V10>>] = Known(<<Dep("b", V10)>>)
  /\ regDeps[<<"b", V10>>] = Known(<<Dep("a", Caret(1, 0))>>)
  /\ packageTree = Node("root", NoRef, <<Node("a", V10, <<Node("b", V10, <<>>)>>)>>)

====
